---- MODULE Spec2Model ----
(***************************************************************************)
(* A model of the FAT32 driver of fat32py: the Disk facade of              *)
(* src/fat32/disk.py over the codecs of src/fat32/models.py.  The block    *)
(* device is a map from logical block numbers to 512-byte blocks; every    *)
(* block the map does not mention reads as zeros.  Byte arrays are         *)
(* sequences (index i of the Python code is element i+1).                  *)
(***************************************************************************)
EXTENDS Integers, Sequences, FiniteSets, TLC

\* ------------------------------------------------------------------ bounds
\* upper bound on the mutating calls (append_to_file, create_file) of a run
MaxMutations == 2
\* upper bound on the non-mutating calls made between two mutating calls
MaxQueries == 2

\* number of blocks of the device the images live on
DeviceBlocks == 4096

\* ------------------------------------------------------- program constants
LOGICAL_BLOCK_SIZE == 512
PARTITION_BLOCK_SIZE == 512
\* first end-of-chain value, 0x0FFFFFF8
EOC == 268435448
\* 2^28: the FAT entry mask 0x0FFFFFFF is (value % MASK28)
MASK28 == 268435456
DIR_ENTRY_SIZE == 32
ATTR_ARCHIVE == 32
ATTR_LFN == 15

\* ------------------------------------------------------------ byte helpers
Min(a, b) == IF a < b THEN a ELSE b

Bytes(n, v) == [i \in 1..n |-> v]

ZeroBlock == Bytes(LOGICAL_BLOCK_SIZE, 0)

\* data[a:b] of Python for 0 <= a, clipped at the end of data
Slice(data, a, b) ==
    LET e == Min(b, Len(data))
    IN  IF e <= a THEN << >> ELSE SubSeq(data, a + 1, e)

\* struct.unpack("<H", data[off:off+2])[0]
LE16(data, off) == data[off + 1] + 256 * data[off + 2]

\* struct.unpack("<I", data[off:off+4])[0] for values below 2^31
LE32(data, off) ==
    data[off + 1] + 256 * data[off + 2] + 65536 * data[off + 3]
        + 16777216 * data[off + 4]

\* struct.unpack("<I", data[off:off+4])[0] & 0x0FFFFFFF
LE32Masked(data, off) ==
    data[off + 1] + 256 * data[off + 2] + 65536 * data[off + 3]
        + 16777216 * (data[off + 4] % 16)

\* (v & 0x0FFFFFFF).to_bytes(4, byteorder="little")
ToLE32(v) ==
    LET w == v % MASK28
    IN  << w % 256, (w \div 256) % 256, (w \div 65536) % 256, w \div 16777216 >>

\* struct.pack("<H", v) and struct.pack("<I", v)
Pack16(v) == << v % 256, (v \div 256) % 256 >>

Pack32(v) == << v % 256, (v \div 256) % 256, (v \div 65536) % 256, v \div 16777216 >>

\* data with the bytes of piece written at offset off
Overlay(data, off, piece) ==
    [i \in 1..Len(data) |->
        IF i > off /\ i <= off + Len(piece) THEN piece[i - off] ELSE data[i]]

\* ------------------------------------------------------------ block device
\* The injected reader: block b of the device (a block never written and not
\* part of the image reads as zeros).  A block the device fails to read is
\* held as the empty sequence.
ReadBlock(dev, b) == IF b \in DOMAIN dev THEN dev[b] ELSE ZeroBlock

Unreadable == << >>

\* An operation in progress: the device, the log of block reads and writes
\* issued so far by the call, the exception that ended it ("none" while it
\* runs), and the blocks passed to the writer, in order, as <<block, data>>.
Machine(dev) == [dev |-> dev, log |-> << >>, err |-> "none", writes |-> << >>]

Fail(m, e) == IF m.err = "none" THEN [m EXCEPT !.err = e] ELSE m

\* a _read_disk that writes the block it read back to the device
ReadDiskWriteBack(m, offset) ==
    LET block == offset \div LOGICAL_BLOCK_SIZE
    IN  IF m.err # "none" THEN [m |-> m, data |-> ZeroBlock]
        ELSE IF block < 0 \/ block >= DeviceBlocks
                \/ ReadBlock(m.dev, block) = Unreadable
        THEN [m |-> Fail(m, "IoFailure"), data |-> ZeroBlock]
        ELSE [m |-> [m EXCEPT !.log = @ \o << <<"r", block>>, <<"w", block>> >>,
                              !.dev = [b \in (DOMAIN m.dev) \cup {block} |->
                                          ReadBlock(m.dev, b)]],
              data |-> ReadBlock(m.dev, block)]

\* Disk._read_disk: the block holding byte offset `offset`.  The reader
\* raises for a block that is not on the device or that it fails to read.
ReadDisk(m, offset) ==
    LET block == offset \div LOGICAL_BLOCK_SIZE
    IN  IF m.err # "none" THEN [m |-> m, data |-> ZeroBlock]
        ELSE IF block < 0 \/ block >= DeviceBlocks
                \/ ReadBlock(m.dev, block) = Unreadable
        THEN [m |-> Fail(m, "IoFailure"), data |-> ZeroBlock]
        ELSE [m |-> [m EXCEPT !.log = Append(@, <<"r", block>>)],
              data |-> ReadBlock(m.dev, block)]

\* Disk._write_disk: self.writer(block, data); a Disk constructed with
\* writer None raises TypeError at the call.
WriteDisk(d, m, offset, data) ==
    LET block == offset \div LOGICAL_BLOCK_SIZE
    IN  IF m.err # "none" THEN m
        ELSE IF d.writer = "None" THEN Fail(m, "TypeError")
        ELSE IF block < 0 \/ block >= DeviceBlocks THEN Fail(m, "IoFailure")
        ELSE [m EXCEPT !.log = Append(@, <<"w", block>>),
                       !.dev = [b \in (DOMAIN m.dev) \cup {block} |->
                                   IF b = block THEN data ELSE m.dev[b]],
                       !.writes = Append(@, <<block, data>>)]

\* --------------------------------------------------------------- partitions
\* Partition.parse_partitions: the four 16-byte entries at offset 446.
ParsePartitions(data) ==
    [i \in 1..4 |->
        LET entry == Slice(data, 446 + (i - 1) * 16, 446 + (i - 1) * 16 + 16)
        IN  [boot_flag |-> entry[1],
             start_chs |-> Slice(entry, 1, 4),
             type |-> entry[5],
             end_chs |-> Slice(entry, 5, 8),
             start_lba |-> LE32(entry, 8),
             num_sectors |-> LE32(entry, 12)]]

\* a sort key that breaks a tie by the larger start_lba
KeyLessLargerLba(p, q) ==
    \/ p.num_sectors > q.num_sectors
    \/ p.num_sectors = q.num_sectors /\ p.start_lba > q.start_lba

\* the sort key (x.num_sectors * -1, x.start_lba) of the selection
KeyLess(p, q) ==
    \/ p.num_sectors > q.num_sectors
    \/ p.num_sectors = q.num_sectors /\ p.start_lba < q.start_lba

\* Disk._get_largest_non_empty_partition: first element of the stable sort
GetLargestNonEmptyPartition(partitions) ==
    LET best == CHOOSE i \in 1..Len(partitions) :
                    \A j \in 1..Len(partitions) :
                        \/ KeyLess(partitions[i], partitions[j])
                        \/ (~KeyLess(partitions[j], partitions[i]) /\ i <= j)
    IN  partitions[best]

\* a partition offset counted in blocks instead of bytes
GetPartitionOffsetInBlocks(partition) == partition.start_lba

\* Partition.get_partition_offset
GetPartitionOffset(partition) == partition.start_lba * PARTITION_BLOCK_SIZE

\* ------------------------------------------------------ BIOS parameter block
\* BiosParameterBlock.__init__
BiosParameterBlock(data) ==
    LET bytes_per_sector == LE16(data, 11)
        sectors_per_cluster == data[14]
        reserved_sector_count == LE16(data, 14)
        num_fats == data[17]
        total_sectors_16 == LE16(data, 19)
        total_sectors_32 == LE32(data, 32)
        fat_size_16 == LE16(data, 22)
        fat_size_32 == LE32(data, 36)
        root_cluster == LE32(data, 44)
        fat_size == IF fat_size_16 = 0 THEN fat_size_32 ELSE fat_size_16
    IN  [bytes_per_sector |-> bytes_per_sector,
         sectors_per_cluster |-> sectors_per_cluster,
         reserved_sector_count |-> reserved_sector_count,
         num_fats |-> num_fats,
         total_sectors_16 |-> total_sectors_16,
         total_sectors_32 |-> total_sectors_32,
         fat_size_16 |-> fat_size_16,
         fat_size_32 |-> fat_size_32,
         root_cluster |-> root_cluster,
         fs_info_sector |-> LE16(data, 48),
         backup_boot_sector |-> LE16(data, 50),
         fat_size |-> fat_size,
         total_sectors |-> IF total_sectors_16 = 0 THEN total_sectors_32
                           ELSE total_sectors_16,
         fat_start_sector |-> reserved_sector_count,
         data_start_sector |-> reserved_sector_count + num_fats * fat_size,
         root_dir_first_cluster |-> root_cluster]

GetBytesPerCluster(bpb) == bpb.sectors_per_cluster * bpb.bytes_per_sector

GetSectorsPerCluster(bpb) == bpb.sectors_per_cluster

GetFatTableByteOffset(bpb) == bpb.fat_start_sector * bpb.bytes_per_sector

GetDataSectorBytesOffset(bpb) == bpb.data_start_sector * bpb.bytes_per_sector

GetFatSizeInSectors(bpb) == bpb.fat_size_32

GetRootDirFirstCluster(bpb) == bpb.root_dir_first_cluster

\* ---------------------------------------------------------------- FAT table
\* Disk._get_next_cluster: the masked FAT entry of `cluster`, read from the
\* primary FAT.  Returns the machine after the read and the value.
GetNextCluster(d, m, cluster) ==
    LET partition_offset == GetPartitionOffset(d.partition)
        offset == GetFatTableByteOffset(d.bios_parameter_block)
        cluster_byte_start == cluster * 4
        sector_num == cluster_byte_start \div 512
        start == cluster_byte_start % LOGICAL_BLOCK_SIZE
        Entry(rd) == [m |-> rd.m, val |-> LE32Masked(rd.data, start)]
    IN  Entry(ReadDisk(m, partition_offset + offset
                              + (sector_num * LOGICAL_BLOCK_SIZE)))

\* data_sector_bytes_offset + ((cluster - 2) * bytes_per_cluster).  Every
\* offset past the end of the device fails the same way, so a cluster
\* number beyond the device is given the offset of the first block past it.
ClusterOffset(d, cluster) ==
    IF cluster >= DeviceBlocks THEN DeviceBlocks * LOGICAL_BLOCK_SIZE
    ELSE GetDataSectorBytesOffset(d.bios_parameter_block)
             + ((cluster - 2) * GetBytesPerCluster(d.bios_parameter_block))

\* A chain walk that comes back to a cluster it has visited is in a cycle:
\* the Python loop does not return ("NoReturn").  The walks carry the set of
\* clusters visited so far.
\* the sectors of one cluster yielded by Disk._read_file_in_chunks
\* (the for loop of lines 167-175)
ClusterChunks(m, base, sectors_to_read, next_cluster, size) ==
    [sec \in 1..sectors_to_read |->
        LET data == ReadBlock(m.dev, (base \div LOGICAL_BLOCK_SIZE) + (sec - 1))
        IN  IF sec - 1 = sectors_to_read - 1 /\ next_cluster >= EOC
            THEN Slice(data, 0,
                       IF size % LOGICAL_BLOCK_SIZE # 0
                       THEN size % LOGICAL_BLOCK_SIZE ELSE LOGICAL_BLOCK_SIZE)
            ELSE data]

ClusterReads(base, sectors_to_read) ==
    [sec \in 1..sectors_to_read |->
        <<"r", (base \div LOGICAL_BLOCK_SIZE) + (sec - 1)>>]

\* Disk._read_file_in_chunks, the generator run to exhaustion: the while
\* loop of lines 155-178 from the state (cluster, i), yielding after chunks.
RECURSIVE ReadLoop(_, _, _, _, _, _, _)
ReadLoop(d, m, size, cluster, i, chunks, seen) ==
    IF m.err # "none" \/ ~(cluster < EOC) THEN [m |-> m, chunks |-> chunks]
    ELSE IF cluster \in seen THEN [m |-> Fail(m, "NoReturn"), chunks |-> chunks]
    ELSE
    LET partition_offset == GetPartitionOffset(d.partition)
        bytes_per_cluster == GetBytesPerCluster(d.bios_parameter_block)
        offset == ClusterOffset(d, cluster)
        sectors_to_read ==
            IF size < (i * bytes_per_cluster)
            THEN ((bytes_per_cluster - ((i * bytes_per_cluster) - size)) \div 512)
                 + (IF size % LOGICAL_BLOCK_SIZE # 0 THEN 1 ELSE 0)
            ELSE GetSectorsPerCluster(d.bios_parameter_block)
        base == partition_offset + offset
        Cluster(nx) ==
            IF nx.m.err # "none" THEN [m |-> nx.m, chunks |-> chunks]
            ELSE IF sectors_to_read > 0
                    /\ (base < 0 \/ (base \div LOGICAL_BLOCK_SIZE) + sectors_to_read
                                        > DeviceBlocks)
            THEN [m |-> Fail(nx.m, "IoFailure"), chunks |-> chunks]
            ELSE ReadLoop(d,
                     [nx.m EXCEPT !.log = @ \o ClusterReads(base, sectors_to_read)],
                     size, nx.val, i + 1,
                     chunks \o ClusterChunks(nx.m, base, sectors_to_read, nx.val,
                                             size),
                     seen \cup {cluster})
    IN  Cluster(GetNextCluster(d, m, cluster))

ReadFileInChunksImpl(d, m, file) ==
    ReadLoop(d, m, file.size, file.start_cluster, 1, << >>, {})

\* Disk._get_files_last_cluster (the FAT entry of a cluster that is not the
\* last is read twice, lines 299 and 301)
RECURSIVE LastClusterLoop(_, _, _, _)
LastClusterLoop(d, m, cluster, seen) ==
    IF m.err # "none" \/ ~(cluster < EOC) THEN [m |-> m, val |-> cluster]
    ELSE IF cluster \in seen THEN [m |-> Fail(m, "NoReturn"), val |-> cluster]
    ELSE
    LET Step(again) == LastClusterLoop(d, again.m, again.val, seen \cup {cluster})
        Test(nx) ==
            IF nx.val < EOC THEN Step(GetNextCluster(d, nx.m, cluster))
            ELSE [m |-> nx.m, val |-> cluster]
    IN  Test(GetNextCluster(d, m, cluster))

GetFilesLastCluster(d, m, file) ==
    LastClusterLoop(d, m, file.start_cluster, {})

\* the for loop of Disk._find_next_empty_fat_entry (lines 206-210): the first
\* i in range(start_id, len(data), 4) whose masked entry is 0, or -1 (None)
FirstFreeInSector(data, start_id) ==
    LET First(free) ==
            IF free = {} THEN -1
            ELSE start_id + 4 * (CHOOSE i \in free : \A j \in free : i <= j)
    IN  First({i \in 0..((Len(data) - 1) \div 4) :
                  /\ start_id + 4 * i < Len(data)
                  /\ LE32Masked(data, start_id + 4 * i) = 0})

\* Disk._find_next_empty_fat_entry: the while loop of lines 200-216.  The
\* sector number is advanced (and wrapped) after the sector was scanned,
\* also when the scan found a free entry, and the advanced number is what
\* the function returns.
RECURSIVE FindLoop(_, _, _, _, _, _)
FindLoop(d, m, start_sector, sector_num, start_id, fuel) ==
    LET partition_offset == GetPartitionOffset(d.partition)
        fat_table_byte_offset == GetFatTableByteOffset(d.bios_parameter_block)
        fat_sectors == GetFatSizeInSectors(d.bios_parameter_block)
        next_sector == IF sector_num + 1 = fat_sectors THEN 0 ELSE sector_num + 1
        Scanned(rd, idx) ==
            IF rd.m.err # "none" \/ idx # -1 \/ start_sector = next_sector
            THEN [m |-> rd.m, data |-> rd.data, sector_num |-> next_sector,
                  idx |-> idx]
            ELSE IF fuel = 0
            THEN [m |-> Fail(rd.m, "NoReturn"), data |-> rd.data,
                  sector_num |-> next_sector, idx |-> idx]
            ELSE FindLoop(d, rd.m, start_sector, next_sector, 0, fuel - 1)
        Sector(rd) == Scanned(rd, FirstFreeInSector(rd.data, start_id))
    IN  Sector(ReadDisk(m, partition_offset + fat_table_byte_offset
                               + (sector_num * LOGICAL_BLOCK_SIZE)))

FindNextEmptyFatEntry(d, m, cluster) ==
    FindLoop(d, m, (cluster * 4) \div LOGICAL_BLOCK_SIZE,
             (cluster * 4) \div LOGICAL_BLOCK_SIZE,
             (cluster * 4) % LOGICAL_BLOCK_SIZE,
             GetFatSizeInSectors(d.bios_parameter_block))

\* Disk._write_fat_entry: idx None (-1) makes data[idx] = ... raise TypeError
\* before anything is written.
WriteFatEntry(d, m, data, sector_num, idx, entry) ==
    LET partition_offset == GetPartitionOffset(d.partition)
        fat_table_byte_offset == GetFatTableByteOffset(d.bios_parameter_block)
    IN  IF m.err # "none" THEN m
        ELSE IF idx = -1 THEN Fail(m, "TypeError")
        ELSE WriteDisk(d, m,
                 partition_offset + fat_table_byte_offset
                     + (sector_num * LOGICAL_BLOCK_SIZE),
                 Overlay(data, idx, entry))

\* Disk._get_fat_block_for_cluster
GetFatBlockForCluster(d, m, cluster) ==
    LET partition_offset == GetPartitionOffset(d.partition)
        fat_table_byte_offset == GetFatTableByteOffset(d.bios_parameter_block)
        idx == (cluster * 4) % LOGICAL_BLOCK_SIZE
        sector_num == (cluster * 4) \div LOGICAL_BLOCK_SIZE
        Block(rd) ==
            [m |-> rd.m, data |-> rd.data, sector_num |-> sector_num, idx |-> idx]
    IN  Block(ReadDisk(m, partition_offset + fat_table_byte_offset
                              + (sector_num * LOGICAL_BLOCK_SIZE)))

\* Disk._allocate_next_free_cluster
AllocateNextFreeCluster(d, m, last_cluster) ==
    LET Link(blk, new_cluster) ==
            WriteFatEntry(d, blk.m, blk.data, blk.sector_num, blk.idx,
                          ToLE32(new_cluster))
        Mark(found) ==
            Link(GetFatBlockForCluster(d,
                     WriteFatEntry(d, found.m, found.data, found.sector_num,
                                   found.idx, ToLE32(EOC)),
                     last_cluster),
                 ((found.sector_num * LOGICAL_BLOCK_SIZE) + found.idx) \div 4)
    IN  Mark(FindNextEmptyFatEntry(d, m, last_cluster))

\* ------------------------------------------------------ directory entry codec
\* a | b on naturals
RECURSIVE BitOr(_, _)
BitOr(a, b) ==
    IF a = 0 THEN b
    ELSE IF b = 0 THEN a
    ELSE (IF a % 2 = 1 \/ b % 2 = 1 THEN 1 ELSE 0) + 2 * BitOr(a \div 2, b \div 2)

\* File._attributes
Attributes(attr) ==
    {f \in {"R", "H", "S", "V", "D", "A", "DV", "RS"} :
        \/ f = "R" /\ (attr \div 1) % 2 = 1
        \/ f = "H" /\ (attr \div 2) % 2 = 1
        \/ f = "S" /\ (attr \div 4) % 2 = 1
        \/ f = "V" /\ (attr \div 8) % 2 = 1
        \/ f = "D" /\ (attr \div 16) % 2 = 1
        \/ f = "A" /\ (attr \div 32) % 2 = 1
        \/ f = "DV" /\ (attr \div 64) % 2 = 1
        \/ f = "RS" /\ (attr \div 128) % 2 = 1}

\* the characters str.strip() removes, among those ASCII decoding can give
IsSpace(c) == c \in {9, 10, 11, 12, 13, 28, 29, 30, 31, 32}

RECURSIVE StripLeft(_)
StripLeft(s) == IF s # << >> /\ IsSpace(Head(s)) THEN StripLeft(Tail(s)) ELSE s

RECURSIVE StripRight(_)
StripRight(s) ==
    IF s # << >> /\ IsSpace(s[Len(s)]) THEN StripRight(SubSeq(s, 1, Len(s) - 1))
    ELSE s

\* bytes.decode("ascii", errors="replace").strip(): a byte above 127 decodes
\* to U+FFFD.  A name is the sequence of its code points.
DecodeName(raw) ==
    StripRight(StripLeft([i \in 1..Len(raw) |->
                             IF raw[i] > 127 THEN 65533 ELSE raw[i]]))

\* name.encode("ascii", errors="replace")[:11].ljust(11, b" ")
EncodeName(name) ==
    [i \in 1..11 |->
        IF i <= Len(name) THEN (IF name[i] > 127 THEN 63 ELSE name[i]) ELSE 32]

\* decode_date and decode_time of parse_directory_entries; a formatted date
\* "YYYY-MM-DD" is the triple of its numbers, a time "HH:MM:SS" likewise
DecodeDate(dt) == << ((dt \div 512) % 128) + 1980, (dt \div 32) % 16, dt % 32 >>

DecodeTime(t) == << (t \div 2048) % 32, (t \div 32) % 64, (t % 32) * 2 >>

\* a date packing with the day in the month's place and the month in the day's
EncodeDateDayFirst(dt) ==
    IF dt = << >> THEN 0
    ELSE BitOr(BitOr((dt[1] - 1980) * 512, dt[3] * 32), dt[2])

\* the date and time packing of File.to_bytes; a field that does not parse
\* (None, written << >>) packs as 0
EncodeDate(dt) ==
    IF dt = << >> THEN 0
    ELSE BitOr(BitOr((dt[1] - 1980) * 512, dt[2] * 32), dt[3])

EncodeTime(t) ==
    IF t = << >> THEN 0
    ELSE BitOr(BitOr(t[1] * 2048, t[2] * 32), t[3] \div 2)

DatePart(stamp) == IF stamp = << >> THEN << >> ELSE stamp[1]

TimePart(stamp) == IF stamp = << >> THEN << >> ELSE stamp[2]

\* a to_bytes that packs the two halves of the start cluster in each other's
\* place
ToBytesSwapped(file) ==
    EncodeName(file.name)
        \o << file.attr, 0, 0 >>
        \o Pack16(EncodeTime(TimePart(file.created)))
        \o Pack16(EncodeDate(DatePart(file.created)))
        \o Pack16(EncodeDate(file.accessed))
        \o Pack16(file.start_cluster % 65536)
        \o Pack16(EncodeTime(TimePart(file.written)))
        \o Pack16(EncodeDate(DatePart(file.written)))
        \o Pack16((file.start_cluster \div 65536) % 65536)
        \o Pack32(file.size)

\* File.to_bytes: the 32-byte directory entry "<11sBBBHHHHHHHI"
ToBytes(file) ==
    EncodeName(file.name)
        \o << file.attr, 0, 0 >>
        \o Pack16(EncodeTime(TimePart(file.created)))
        \o Pack16(EncodeDate(DatePart(file.created)))
        \o Pack16(EncodeDate(file.accessed))
        \o Pack16((file.start_cluster \div 65536) % 65536)
        \o Pack16(EncodeTime(TimePart(file.written)))
        \o Pack16(EncodeDate(DatePart(file.written)))
        \o Pack16(file.start_cluster % 65536)
        \o Pack32(file.size)

\* File.__init__ as called by parse_directory_entries for one entry
ParseEntry(entry, byte_offset) ==
    LET attr == entry[12]
        fst_clus_hi == LE16(entry, 20)
        fst_clus_lo == LE16(entry, 26)
    IN  [name |-> DecodeName(Slice(entry, 0, 11)),
         attr |-> attr,
         attributes |-> Attributes(attr),
         start_cluster |-> fst_clus_hi * 65536 + fst_clus_lo,
         size |-> LE32(entry, 28),
         created |-> << DecodeDate(LE16(entry, 16)), DecodeTime(LE16(entry, 14)) >>,
         accessed |-> DecodeDate(LE16(entry, 18)),
         written |-> << DecodeDate(LE16(entry, 24)), DecodeTime(LE16(entry, 22)) >>,
         is_lfn |-> (attr = ATTR_LFN /\ entry[1] # 0 /\ entry[1] # 229),
         byte_offset |-> byte_offset]

\* a parse_directory_entries that stops at a deleted entry (0xE5) instead of
\* skipping it
RECURSIVE ParseFromStopAtDeleted(_, _, _)
ParseFromStopAtDeleted(data, sector_offset, i) ==
    IF i >= Len(data) THEN << >>
    ELSE LET entry == Slice(data, i, i + 32)
         IN  IF entry[1] = 0 \/ entry[1] = 229 THEN << >>
             ELSE << ParseEntry(entry, sector_offset + i) >>
                      \o ParseFromStopAtDeleted(data, sector_offset, i + 32)

\* a parse_directory_entries that skips a slot whose first byte is 0x00 as
\* it skips a deleted one, instead of stopping there
RECURSIVE ParseFromSkipEnd(_, _, _)
ParseFromSkipEnd(data, sector_offset, i) ==
    IF i >= Len(data) THEN << >>
    ELSE LET entry == Slice(data, i, i + 32)
         IN  IF entry[1] = 0 \/ entry[1] = 229
             THEN ParseFromSkipEnd(data, sector_offset, i + 32)
             ELSE << ParseEntry(entry, sector_offset + i) >>
                      \o ParseFromSkipEnd(data, sector_offset, i + 32)

\* File.parse_directory_entries: the loop of lines 395-446 from offset i
RECURSIVE ParseFrom(_, _, _)
ParseFrom(data, sector_offset, i) ==
    IF i >= Len(data) THEN << >>
    ELSE LET entry == Slice(data, i, i + 32)
         IN  IF entry[1] = 0 THEN << >>
             ELSE IF entry[1] = 229 THEN ParseFrom(data, sector_offset, i + 32)
             ELSE << ParseEntry(entry, sector_offset + i) >>
                      \o ParseFrom(data, sector_offset, i + 32)

ParseDirectoryEntries(data, sector_offset) == ParseFrom(data, sector_offset, 0)

\* concatenation of the chunks of a read (data.extend(chunk) per chunk)
RECURSIVE Concat(_)
Concat(chunks) ==
    IF chunks = << >> THEN << >> ELSE Head(chunks) \o Concat(Tail(chunks))

\* The root directory as a File: File(None, None, None, 2, bytes_per_cluster,
\* None, None, None, None) of Disk._get_root_directory_entries.  None is
\* written << >> for a string, -1 for a number, {} for a set.
RootDirectoryFile(d) ==
    [name |-> << >>, attr |-> -1, attributes |-> {},
     start_cluster |-> 2,
     size |-> GetBytesPerCluster(d.bios_parameter_block),
     created |-> << >>, accessed |-> << >>, written |-> << >>,
     is_lfn |-> FALSE, byte_offset |-> -1]

\* The offset parse_directory_entries is given for the root directory: the
\* partition-relative byte offset of the directory's first cluster.
RootDirectoryByteOffset(d) ==
    GetDataSectorBytesOffset(d.bios_parameter_block)
        + (RootDirectoryFile(d).start_cluster - 2)
              * GetBytesPerCluster(d.bios_parameter_block)

\* Disk._get_root_directory_entries
GetRootDirectoryEntries(d, m) ==
    LET Parse(rd) ==
            [m |-> rd.m,
             files |-> IF rd.m.err # "none" THEN << >>
                       ELSE ParseDirectoryEntries(Concat(rd.chunks),
                                                  RootDirectoryByteOffset(d))]
    IN  Parse(ReadFileInChunksImpl(d, m, RootDirectoryFile(d)))

\* --------------------------------------------------------------- append path
\* a sector address that leaves the partition's offset out
SectorAddressNoPartition(d, offset, used_sectors) ==
    offset + (used_sectors * LOGICAL_BLOCK_SIZE)

\* the address of sector used_sectors of the cluster at `offset`
SectorAddress(d, offset, used_sectors) ==
    GetPartitionOffset(d.partition) + offset + (used_sectors * LOGICAL_BLOCK_SIZE)

\* The while loop of Disk._write_to_last_cluster (lines 362-381).  One step
\* here is the run of k >= 1 iterations that copy bytes into the current
\* block up to the point where the loop ends or the block is full; the test
\* of line 371 can only succeed on the last of them.
RECURSIVE FillLoop(_, _, _)
FillLoop(d, offset, st) ==
    IF st.m.err # "none" \/ ~(st.free_bytes_in_cluster > 0) \/ Len(st.data) = 0
    THEN st
    ELSE
    LET k == Min(Min(st.free_bytes_in_cluster, Len(st.data)),
                 LOGICAL_BLOCK_SIZE - st.eof_index)
        NextSector(copied, rd) ==
            FillLoop(d, offset,
                [copied EXCEPT !.m = rd.m, !.block = rd.data,
                               !.used_sectors = @ + 1, !.eof_index = 0])
        Copied(copied) ==
            IF copied.eof_index = LOGICAL_BLOCK_SIZE /\ Len(copied.data) > 0
            THEN NextSector(copied,
                     ReadDisk(WriteDisk(d, st.m,
                                  SectorAddress(d, offset, st.used_sectors),
                                  copied.block),
                              SectorAddress(d, offset, st.used_sectors + 1)))
            ELSE FillLoop(d, offset, copied)
    IN  Copied([st EXCEPT !.block = Overlay(st.block, st.eof_index,
                                            SubSeq(st.data, 1, k)),
                          !.data = SubSeq(st.data, k + 1, Len(st.data)),
                          !.eof_index = st.eof_index + k,
                          !.written = @ + k,
                          !.free_bytes_in_cluster = @ - k])

\* Disk._write_to_last_cluster: (remaining data, bytes written) and the machine
WriteToLastCluster(d, m, file, data) ==
    LET bytes_per_cluster == GetBytesPerCluster(d.bios_parameter_block)
        file_size == file.size
        free_bytes_in_cluster == bytes_per_cluster - (file_size % bytes_per_cluster)
        cluster_used_bytes == file_size % bytes_per_cluster
        used_sectors == cluster_used_bytes \div LOGICAL_BLOCK_SIZE
        eof_index == cluster_used_bytes % LOGICAL_BLOCK_SIZE
        Flush(offset, st) ==
            [m |-> WriteDisk(d, st.m, SectorAddress(d, offset, st.used_sectors),
                             st.block),
             data |-> st.data, written |-> st.written]
        Fill(offset, rd) ==
            Flush(offset,
                  FillLoop(d, offset,
                      [m |-> rd.m, data |-> data, written |-> 0,
                       free_bytes_in_cluster |-> free_bytes_in_cluster,
                       block |-> rd.data, eof_index |-> eof_index,
                       used_sectors |-> used_sectors]))
        At(last, offset) ==
            Fill(offset, ReadDisk(last.m, SectorAddress(d, offset, used_sectors)))
        Last(last) == At(last, ClusterOffset(d, last.val))
    IN  Last(GetFilesLastCluster(d, m, file))

\* Disk._append_to_file: the while loop of lines 400-405.  The File object is
\* updated in place, so the size written before an exception stays.
RECURSIVE AppendLoop(_, _, _, _)
AppendLoop(d, m, file, data) ==
    IF m.err # "none" \/ Len(data) = 0 THEN [m |-> m, file |-> file]
    ELSE
    LET Allocate(w, file1, last) ==
            AppendLoop(d, AllocateNextFreeCluster(d, last.m, last.val),
                       file1, w.data)
        Sized(w, file1) ==
            IF w.m.err # "none" THEN [m |-> w.m, file |-> file]
            ELSE IF Len(w.data) > 0
            THEN Allocate(w, file1, GetFilesLastCluster(d, w.m, file1))
            ELSE [m |-> w.m, file |-> file1]
        Written(w) == Sized(w, [file EXCEPT !.size = file.size + w.written])
    IN  Written(WriteToLastCluster(d, m, file, data))

AppendToFileImpl(d, m, file, data) == AppendLoop(d, m, file, data)

\* --------------------------------------------------------------- create path
\* the first 32-byte slot of the directory data whose first byte is 0x00,
\* as a byte offset into the data, or -1
FirstEndSlot(data) ==
    LET ends == {i \in 0..((Len(data) \div DIR_ENTRY_SIZE) - 1) :
                    data[i * DIR_ENTRY_SIZE + 1] = 0}
    IN  IF ends = {} THEN -1
        ELSE DIR_ENTRY_SIZE * (CHOOSE i \in ends : \A j \in ends : i <= j)

\* The File create_file builds: size 0, Archive, zero timestamps.
NewFile(name, start_cluster, byte_offset) ==
    [name |-> name, attr |-> ATTR_ARCHIVE, attributes |-> Attributes(ATTR_ARCHIVE),
     start_cluster |-> start_cluster, size |-> 0,
     created |-> << DecodeDate(0), DecodeTime(0) >>,
     accessed |-> DecodeDate(0),
     written |-> << DecodeDate(0), DecodeTime(0) >>,
     is_lfn |-> FALSE, byte_offset |-> byte_offset]

\* Disk.create_file: a free FAT entry is found by the scan of
\* _find_next_empty_fat_entry from the root directory's cluster and marked
\* end-of-chain as _allocate_next_free_cluster marks one; the entry is then
\* written into the first root-directory slot whose first byte is 0x00.
CreateFileImpl(d, m, name) ==
    LET Store(file, address, blk) ==
            [m |-> WriteDisk(d, blk.m, address,
                       Overlay(blk.data, address % LOGICAL_BLOCK_SIZE,
                               ToBytes(file))),
             file |-> file]
        Slot(rd, slot, file, address) ==
            IF rd.m.err # "none" THEN [m |-> rd.m, file |-> file]
            ELSE IF slot = -1 THEN [m |-> Fail(rd.m, "RootDirFull"), file |-> file]
            ELSE Store(file, address, ReadDisk(rd.m, address))
        Entry(new_cluster, rd, slot) ==
            Slot(rd, slot,
                 NewFile(name, new_cluster, RootDirectoryByteOffset(d) + slot),
                 GetPartitionOffset(d.partition) + RootDirectoryByteOffset(d) + slot)
        Directory(new_cluster, rd) ==
            Entry(new_cluster, rd, FirstEndSlot(Concat(rd.chunks)))
        Mark(found) ==
            Directory(((found.sector_num * LOGICAL_BLOCK_SIZE) + found.idx) \div 4,
                      ReadFileInChunksImpl(d,
                          IF found.idx = -1 THEN Fail(found.m, "DiskFull")
                          ELSE WriteFatEntry(d, found.m, found.data,
                                   found.sector_num, found.idx, ToLE32(EOC)),
                          RootDirectoryFile(d)))
    IN  Mark(FindNextEmptyFatEntry(d, m,
                 GetRootDirFirstCluster(d.bios_parameter_block)))

\* ------------------------------------------------------------- volume images
\* The volumes a run starts from: a FAT32 partition at LBA 1 with one
\* reserved sector, two FAT copies, and a root directory in cluster 2 that
\* holds a volume label, a long-name entry, a deleted entry and the files
\*   A (cluster 3, 11 bytes), B (cluster 4, exactly one cluster),
\*   C (cluster 5, empty), D (clusters 6 -> 7, one cluster and 5 bytes),
\* and, when the FAT has two sectors, E (cluster 136, 5 bytes).  In a full
\* volume every other FAT entry is marked bad (0x0FFFFFF7), otherwise free.
\* The four reserved high bits of the FAT entries of the data clusters from
\* 3 on hold the value `high` (free entries are 0x10000000 when it is 1).
\* The clusters `holes` of a full volume are free.
Images ==
    { [spc |-> 1, fat |-> 1, full |-> FALSE, high |-> 0, holes |-> {}],
      [spc |-> 2, fat |-> 1, full |-> FALSE, high |-> 1, holes |-> {}],
      [spc |-> 1, fat |-> 2, full |-> FALSE, high |-> 0, holes |-> {}],
      [spc |-> 1, fat |-> 1, full |-> TRUE, high |-> 0, holes |-> {}] }

ImgBytesPerCluster(img) == img.spc * LOGICAL_BLOCK_SIZE

ImgFiles(img) ==
    << [name |-> <<65>>, start |-> 3, size |-> 11, chain |-> <<3>>],
       [name |-> <<66>>, start |-> 4, size |-> ImgBytesPerCluster(img),
        chain |-> <<4>>],
       [name |-> <<67>>, start |-> 5, size |-> 0, chain |-> <<5>>],
       [name |-> <<68>>, start |-> 6, size |-> ImgBytesPerCluster(img) + 5,
        chain |-> <<6, 7>>] >>
    \o (IF img.fat = 2
        THEN << [name |-> <<69>>, start |-> 136, size |-> 5, chain |-> <<136>>] >>
        ELSE << >>)

\* byte k of the initial content of the image's file number f
FileByte(f, k) == 1 + ((f * 17 + k * 3) % 61)

\* the slack of a file's last sector in the image
SLACK == 127

ImgFatValue(img, c) ==
    IF c = 0 THEN EOC
    ELSE IF c \in {1, 2} THEN MASK28 - 1
    ELSE LET fs == ImgFiles(img)
             on == {p \in (1..Len(fs)) \X (1..2) :
                      p[2] <= Len(fs[p[1]].chain) /\ fs[p[1]].chain[p[2]] = c}
         IN  img.high * MASK28
             + (IF on = {}
                THEN (IF img.full /\ c \notin img.holes THEN EOC - 1 ELSE 0)
                ELSE LET p == CHOOSE q \in on : TRUE
                     IN  IF p[2] = Len(fs[p[1]].chain) THEN MASK28 - 1
                         ELSE fs[p[1]].chain[p[2] + 1])

ImgFatSector(img, s) ==
    [i \in 1..LOGICAL_BLOCK_SIZE |->
        Pack32(ImgFatValue(img, (s * LOGICAL_BLOCK_SIZE + (i - 1)) \div 4))
            [((i - 1) % 4) + 1]]

ImgMBR(img) ==
    Overlay(ZeroBlock, 446,
            << 0, 254, 255, 255, 11, 254, 255, 255 >> \o Pack32(1)
                \o Pack32(DeviceBlocks - 1))

ImgBPB(img) ==
    Overlay(Overlay(Overlay(Overlay(Overlay(Overlay(Overlay(ZeroBlock,
        11, Pack16(LOGICAL_BLOCK_SIZE)),
        13, << img.spc >>),
        14, Pack16(1)),
        16, << 2 >>),
        32, Pack32(DeviceBlocks - 1)),
        36, Pack32(img.fat)),
        44, Pack32(2))

\* a long-name entry (attr 0x0F) and a deleted entry (first byte 0xE5)
ImgLfnEntry ==
    << 65, 97, 0, 46, 0, 116, 0, 120, 0, 116, 0, ATTR_LFN, 0, 85 >>
        \o Bytes(12, 0) \o << 0, 0, 120, 0, 121, 0 >>

ImgDeletedEntry == << 229 >> \o Bytes(10, 32) \o << ATTR_ARCHIVE >> \o Bytes(20, 0)

ImgDirEntry(name, attr, start, size) ==
    ToBytes([name |-> name, attr |-> attr, start_cluster |-> start, size |-> size,
             created |-> << <<2025, 7, 14>>, <<10, 42, 14>> >>,
             accessed |-> <<2025, 7, 28>>,
             written |-> << <<2025, 7, 16>>, <<16, 32, 46>> >>])

RECURSIVE ImgFileEntries(_, _)
ImgFileEntries(fs, i) ==
    IF i > Len(fs) THEN << >>
    ELSE ImgDirEntry(fs[i].name, ATTR_ARCHIVE, fs[i].start, fs[i].size)
             \o ImgFileEntries(fs, i + 1)

ImgRootDir(img) ==
    Overlay(ZeroBlock, 0,
            ImgDirEntry(<<68, 82, 73, 86, 69>>, 40, 0, 0)
                \o ImgLfnEntry \o ImgDeletedEntry
                \o ImgFileEntries(ImgFiles(img), 1))

\* first block of cluster c
ImgClusterBlock(img, c) == 1 + 1 + 2 * img.fat + (c - 2) * img.spc

\* sector sec of the j-th cluster of file f
ImgDataSector(img, f, j, sec) ==
    LET size == ImgFiles(img)[f].size
        base == (j - 1) * ImgBytesPerCluster(img) + sec * LOGICAL_BLOCK_SIZE
    IN  [i \in 1..LOGICAL_BLOCK_SIZE |->
            IF base + (i - 1) < size THEN FileByte(f, base + (i - 1)) ELSE SLACK]

ImageBlocks(img) ==
    LET fs == ImgFiles(img)
        fatBlocks == {<<2 + s, ImgFatSector(img, s)>> : s \in 0..(img.fat - 1)}
                     \cup {<<2 + img.fat + s, ImgFatSector(img, s)>> :
                              s \in 0..(img.fat - 1)}
        dataBlocks == {<<ImgClusterBlock(img, fs[f].chain[j]) + sec,
                         ImgDataSector(img, f, j, sec)>> :
                          <<f, j, sec>> \in
                              {t \in (1..Len(fs)) \X (1..2) \X (0..(img.spc - 1)) :
                                  t[2] <= Len(fs[t[1]].chain)}}
    IN  {<<0, ImgMBR(img)>>, <<1, ImgBPB(img)>>,
         <<ImgClusterBlock(img, 2), ImgRootDir(img)>>}
            \cup fatBlocks \cup dataBlocks

\* the device holding a set of <<block number, content>> pairs
DeviceOf(all) == [b \in {p[1] : p \in all} |-> (CHOOSE p \in all : p[1] = b)[2]]

ImageDevice(img) == DeviceOf(ImageBlocks(img))

\* The master boot records init is run on.  A partition entry is the pair
\* <<num_sectors, start_lba>>: empty, two sizes that tie on two or three
\* start blocks, and a partition that starts past the end of the device.
MbrEntries ==
    { <<0, 0>>, <<8, 1>>, <<8, 2>>, <<16, 2>>, <<16, 3>>, <<16, DeviceBlocks + 8>> }

MbrTables == [1..4 -> MbrEntries]

MbrEntryBytes(e) ==
    IF e[1] = 0 THEN Bytes(16, 0)
    ELSE << 0, 254, 255, 255, 11, 254, 255, 255 >> \o Pack32(e[2]) \o Pack32(e[1])

MbrOf(table) ==
    Overlay(ZeroBlock, 446,
            MbrEntryBytes(table[1]) \o MbrEntryBytes(table[2])
                \o MbrEntryBytes(table[3]) \o MbrEntryBytes(table[4]))

\* a device with the given block 0 and a BPB wherever a partition can start;
\* the BPB is that of the first volume image, or has bytes_per_sector or
\* sectors_per_cluster zeroed
MbrDevice(block0, geometry) ==
    LET bpb == ImgBPB([spc |-> IF geometry = "spc0" THEN 0 ELSE 1, fat |-> 1,
                       full |-> FALSE])
    IN  DeviceOf({<<0, block0>>}
                 \cup {<<b, IF geometry = "bps0" THEN Overlay(bpb, 11, Pack16(0))
                            ELSE bpb>> :
                           b \in {e[2] : e \in {x \in MbrEntries :
                                                    x[2] > 0 /\ x[2] < DeviceBlocks}}})

\* ----------------------------------------------------------------- the caller
\* the lengths of the buffers a caller appends, for a cluster of bpc bytes:
\* nothing, a few bytes, and more than a cluster
AppendLens(bpc) == {0, 3, bpc + 2}

\* the buffer of the caller's n-th mutating call, of the given length
AppendData(n, len) == [j \in 1..len |-> 64 + ((n * 37 + (j - 1)) % 63)]

\* the names a caller creates files under ("new")
CreateNames == { <<110, 101, 119>> }

\* the File a caller builds itself to pass to a Disk that never listed one
CallerFile ==
    [name |-> <<65>>, attr |-> ATTR_ARCHIVE, attributes |-> Attributes(ATTR_ARCHIVE),
     start_cluster |-> 3, size |-> 11,
     created |-> << DecodeDate(0), DecodeTime(0) >>, accessed |-> DecodeDate(0),
     written |-> << DecodeDate(0), DecodeTime(0) >>,
     is_lfn |-> FALSE, byte_offset |-> 0]

\* `raise DiskNotInitialised` instantiates the class with no argument, and
\* DiskNotInitialised.__init__(self, message) requires one: the exception
\* that propagates is the TypeError of the failed instantiation.
DiskNotInitialisedArgs == 1

RaiseDiskNotInitialised ==
    IF DiskNotInitialisedArgs = 0 THEN "DiskNotInitialised" ELSE "TypeError"

\* ---------------------------------------------------------------- the state
VARIABLES
    dev,      \* the block device
    disk,     \* the Disk object: writer, partitions, partition,
              \* bios_parameter_block, initialised
    files,    \* the File objects the caller holds (the last listing, then
              \* any File create_file returned)
    last,     \* the last call: operation, argument, exception, block I/O, result
    pre,      \* the device and the caller's File objects before the last
              \* mutating call
    muts,     \* the mutating calls made: <<operation, name of the file>>
    nqry      \* non-mutating calls made since the last mutating call

vars == << dev, disk, files, last, pre, muts, nqry >>

NoCall ==
    [op |-> "none", arg |-> 0, data |-> << >>, err |-> "none", log |-> << >>,
     chunks |-> << >>]

\* Disk.__init__ over an image, with a writer or with writer = None
Init ==
    \E img \in Images, w \in {"write_block", "None"} :
        /\ (w = "None" => (img.spc = 1 /\ img.fat = 1 /\ ~img.full))
        /\ dev = ImageDevice(img)
        /\ disk = [writer |-> w, partitions |-> << >>, partition |-> "None",
                   bios_parameter_block |-> "None", initialised |-> FALSE]
        /\ files = << >>
        /\ last = NoCall
        /\ pre = [dev |-> dev, files |-> files]
        /\ muts = << >>
        /\ nqry = 0

Query == nqry < MaxQueries /\ nqry' = nqry + 1 /\ UNCHANGED << muts, pre >>

Mutation(op, name) ==
    /\ Len(muts) < MaxMutations
    /\ muts' = Append(muts, <<op, name>>)
    /\ nqry' = 0
    /\ pre' = [dev |-> dev, files |-> files]

\* the File objects a caller passes: the entries of its listing that are
\* not long-name entries; before init, a File of its own (argument 0)
Targets == {i \in 1..Len(files) : ~files[i].is_lfn}

Arg(i) == IF i = 0 THEN CallerFile ELSE files[i]

\* Disk.init, which a caller invokes until it succeeded.  An exception of
\* the reader leaves the statements after the failed read undone.
DiskInit ==
    LET Done(m, partitions, partition, bpb, initialised) ==
            /\ disk' = [disk EXCEPT
                            !.partitions = partitions,
                            !.partition = partition,
                            !.bios_parameter_block = bpb,
                            !.initialised = initialised]
            /\ last' = [NoCall EXCEPT !.op = "init", !.err = m.err, !.log = m.log]
            /\ dev' = m.dev
        Bpb(partitions, partition, r1) ==
            IF r1.m.err # "none"
            THEN Done(r1.m, partitions, partition, disk.bios_parameter_block, FALSE)
            ELSE Done(r1.m, partitions, partition, BiosParameterBlock(r1.data), TRUE)
        Chosen(r0, partitions, partition) ==
            Bpb(partitions, partition,
                ReadDisk(r0.m, GetPartitionOffset(partition)))
        Parsed(r0, partitions) ==
            Chosen(r0, partitions, GetLargestNonEmptyPartition(partitions))
        Mbr(r0) ==
            IF r0.m.err # "none"
            THEN Done(r0.m, disk.partitions, disk.partition,
                      disk.bios_parameter_block, FALSE)
            ELSE Parsed(r0, ParsePartitions(r0.data))
    IN  /\ ~disk.initialised
        /\ UNCHANGED << muts, nqry, pre >>
        /\ Mbr(ReadDisk(Machine(dev), 0))
        /\ UNCHANGED files

\* Disk.list_root_files
ListRootFiles ==
    /\ Query
    /\ IF ~disk.initialised
       THEN /\ last' = [NoCall EXCEPT !.op = "list", !.err = RaiseDiskNotInitialised]
            /\ UNCHANGED << dev, files >>
       ELSE LET Listed(r) ==
                    /\ last' = [NoCall EXCEPT !.op = "list", !.err = r.m.err,
                                              !.log = r.m.log]
                    /\ dev' = r.m.dev
                    /\ files' = IF r.m.err = "none" THEN r.files ELSE files
            IN  Listed(GetRootDirectoryEntries(disk, Machine(dev)))
    /\ UNCHANGED disk

\* Disk.read_file_in_chunks, iterated to its end by the caller
ReadFileInChunks(i) ==
    /\ Query
    /\ IF ~disk.initialised
       THEN /\ last' = [NoCall EXCEPT !.op = "read", !.arg = i,
                                      !.err = RaiseDiskNotInitialised]
            /\ UNCHANGED dev
       ELSE LET Read(r) ==
                    /\ last' = [NoCall EXCEPT !.op = "read", !.arg = i,
                                              !.err = r.m.err, !.log = r.m.log,
                                              !.chunks = r.chunks]
                    /\ dev' = r.m.dev
            IN  Read(ReadFileInChunksImpl(disk, Machine(dev), Arg(i)))
    /\ UNCHANGED << disk, files >>

\* Disk.append_to_file
AppendToFile(i, data) ==
    /\ Mutation("append", Arg(i).name)
    /\ IF ~disk.initialised
       THEN /\ last' = [NoCall EXCEPT !.op = "append", !.arg = i, !.data = data,
                                      !.err = RaiseDiskNotInitialised]
            /\ UNCHANGED << dev, files >>
       ELSE LET Appended(r) ==
                    /\ last' = [NoCall EXCEPT !.op = "append", !.arg = i,
                                              !.data = data, !.err = r.m.err,
                                              !.log = r.m.log]
                    /\ dev' = r.m.dev
                    /\ files' = [files EXCEPT ![i] = r.file]
            IN  Appended(AppendToFileImpl(disk, Machine(dev), Arg(i), data))
    /\ UNCHANGED disk

\* Disk.create_file; the caller keeps the File it returns
CreateFile(name) ==
    /\ Mutation("create", name)
    /\ IF ~disk.initialised
       THEN /\ last' = [NoCall EXCEPT !.op = "create", !.data = name,
                                      !.err = RaiseDiskNotInitialised]
            /\ UNCHANGED << dev, files >>
       ELSE LET Created(r) ==
                    /\ last' = [NoCall EXCEPT !.op = "create", !.data = name,
                                              !.arg = Len(files) + 1,
                                              !.err = r.m.err, !.log = r.m.log]
                    /\ dev' = r.m.dev
                    /\ files' = IF r.m.err = "none" THEN Append(files, r.file)
                                ELSE files
            IN  Created(CreateFileImpl(disk, Machine(dev), name))
    /\ UNCHANGED disk

Next ==
    \/ DiskInit
    \/ ListRootFiles
    \/ \E i \in (IF disk.initialised THEN Targets ELSE {0}) : ReadFileInChunks(i)
    \/ \E i \in (IF disk.initialised THEN Targets ELSE {0}) :
           \E len \in AppendLens(IF disk.initialised
                                 THEN GetBytesPerCluster(disk.bios_parameter_block)
                                 ELSE LOGICAL_BLOCK_SIZE) :
               AppendToFile(i, AppendData(Len(muts), len))
    \/ \E name \in CreateNames : CreateFile(name)

Spec == Init /\ [][Next]_vars

\* Disk.__init__ over a device with any of the master boot records, or with
\* a block 0 the reader fails on, or with a BPB of a degenerate geometry in
\* the one partition of the table
InitMbr ==
    \E table \in MbrTables, readable \in BOOLEAN, geometry \in {"ok", "bps0", "spc0"} :
        /\ (~readable => table = [i \in 1..4 |-> <<0, 0>>])
        /\ (geometry # "ok" =>
                (readable /\ table = [i \in 1..4 |-> IF i = 1 THEN <<8, 1>>
                                                      ELSE <<0, 0>>]))
        /\ dev = MbrDevice(IF readable THEN MbrOf(table) ELSE Unreadable, geometry)
        /\ disk = [writer |-> "write_block", partitions |-> << >>,
                   partition |-> "None", bios_parameter_block |-> "None",
                   initialised |-> FALSE]
        /\ files = << >>
        /\ last = NoCall
        /\ pre = [dev |-> dev, files |-> files]
        /\ muts = << >>
        /\ nqry = 0

\* an init was called and the Disk is still not initialised
InitFailed == ~disk.initialised /\ last.op # "none"

\* the calls of a caller that starts with init and goes on after it failed
NextInit ==
    \/ DiskInit
    \/ InitFailed /\ ListRootFiles
    \/ InitFailed /\ ReadFileInChunks(0)
    \/ InitFailed /\ \E len \in AppendLens(LOGICAL_BLOCK_SIZE) :
                         AppendToFile(0, AppendData(Len(muts), len))
    \/ InitFailed /\ \E name \in CreateNames : CreateFile(name)

SpecInit == InitMbr /\ [][NextInit]_vars

\* ------------------------------------------------------------- observations
\* what read_file_in_chunks(file) yields on the device dv, run to its end
ReadBack(dv, file) == ReadFileInChunksImpl(disk, Machine(dv), file)

\* what list_root_files returns on the device dv
ListingOf(dv) == GetRootDirectoryEntries(disk, Machine(dv))

\* the masked entry of cluster c in the primary FAT of the device dv
FatEntry(dv, c) == GetNextCluster(disk, Machine(dv), c).val

\* the number of entries of one FAT copy
FatEntries ==
    (GetFatSizeInSectors(disk.bios_parameter_block) * LOGICAL_BLOCK_SIZE) \div 4

\* sum(len(chunk) for chunk in chunks)
RECURSIVE SumLen(_)
SumLen(chunks) ==
    IF chunks = << >> THEN 0 ELSE Len(Head(chunks)) + SumLen(Tail(chunks))

\* the clusters the FAT of dv chains from c on, ended by -1 where the chain
\* leaves the data clusters or comes back to a cluster of `seen`
RECURSIVE ChainOf(_, _, _)
ChainOf(dv, c, seen) ==
    IF c >= EOC THEN << >>
    ELSE IF c < 2 \/ c >= FatEntries \/ c \in seen THEN << -1 >>
    ELSE << c >> \o ChainOf(dv, FatEntry(dv, c), seen \cup {c})

ClustersFor(size) ==
    LET bpc == GetBytesPerCluster(disk.bios_parameter_block)
    IN  IF size = 0 THEN 1 ELSE (size + bpc - 1) \div bpc

\* a file whose chain on dv is made of data clusters, ends in an end-of-chain
\* entry and has the length its size needs
WellFormed(dv, f) ==
    LET Ok(ch) == /\ \A j \in 1..Len(ch) : ch[j] # -1
                  /\ Len(ch) = ClustersFor(f.size)
    IN  Ok(ChainOf(dv, f.start_cluster, {}))

\* a regular file: no long-name entry, no volume label, no directory
Regular(f) == ~f.is_lfn /\ "V" \notin f.attributes /\ "D" \notin f.attributes

\* the last call was a successful append_to_file to a regular, well-formed file
Appended ==
    /\ disk.initialised
    /\ last.op = "append"
    /\ last.err = "none"
    /\ Regular(pre.files[last.arg])
    /\ WellFormed(pre.dev, pre.files[last.arg])

\* the last call was a successful create_file
Created == disk.initialised /\ last.op = "create" /\ last.err = "none"

\* the last call was an append_to_file to the file that the mutating call
\* before it, a create_file, made, and that the caller took from a listing
\* made in between
AppendedToCreated ==
    /\ disk.initialised
    /\ last.op = "append"
    /\ Len(muts) >= 2
    /\ muts[Len(muts) - 1] = <<"create", pre.files[last.arg].name>>
    /\ pre.files = ListingOf(pre.dev).files
    /\ \A j \in 1..Len(pre.files) :
           pre.files[j].name = pre.files[last.arg].name => j <= last.arg

\* ------------------------------------------------------------------- claims
\* C1: after append_to_file(f, b) returns for a regular file f with a
\* well-formed chain, reading f yields the bytes it yielded before the
\* append followed by b.
AppendExtends ==
    Appended =>
        LET Same(before, after) ==
                /\ after.m.err = "none"
                /\ Concat(after.chunks) = Concat(before.chunks) \o last.data
        IN  Same(ReadBack(pre.dev, pre.files[last.arg]),
                 ReadBack(dev, files[last.arg]))

\* C2: for every file f a listing of the root directory returns, the chunks
\* read_file_in_chunks(f) yields are finitely many and their lengths sum to
\* f.size.
ReadLength ==
    (/\ disk.initialised
     /\ last.op = "read"
     /\ Regular(files[last.arg])
     /\ ListingOf(dev).m.err = "none"
     /\ files = ListingOf(dev).files)
        => (last.err = "none" /\ SumLen(last.chunks) = files[last.arg].size)

\* C3: list_root_files, read_file_in_chunks, append_to_file and create_file
\* called before init fail with DiskNotInitialised and read and write no block.
NotInitialisedFails ==
    (~disk.initialised /\ last.op \in {"list", "read", "append", "create"})
        => (last.err = "DiskNotInitialised" /\ last.log = << >>)

\* C4: after append_to_file(f, b) returns, the File's size is the size before
\* plus len(b), and a following list_root_files reports that size for the
\* file's directory entry.
AppendUpdatesSize ==
    (Appended /\ pre.files = ListingOf(pre.dev).files)
        => /\ files[last.arg].size = pre.files[last.arg].size + Len(last.data)
           /\ ListingOf(dev).m.err = "none"
           /\ Len(ListingOf(dev).files) >= last.arg
           /\ ListingOf(dev).files[last.arg].size = files[last.arg].size

CreateFirstFreeSlot ==
    Created =>
        /\ FatEntry(pre.dev, files[last.arg].start_cluster) = 0
        /\ \A c \in 2..(files[last.arg].start_cluster - 1) : FatEntry(pre.dev, c) # 0
        /\ FatEntry(dev, files[last.arg].start_cluster) >= EOC

FatFull(dv) == \A c \in 0..(FatEntries - 1) : FatEntry(dv, c) # 0

\* the blocks of the FAT copies
FatBlocks ==
    LET first == (GetPartitionOffset(disk.partition)
                     + GetFatTableByteOffset(disk.bios_parameter_block))
                 \div LOGICAL_BLOCK_SIZE
    IN  first..(first + disk.bios_parameter_block.num_fats
                            * GetFatSizeInSectors(disk.bios_parameter_block) - 1)

\* C9: an append_to_file that needs a new cluster when no FAT entry is free
\* fails with DiskFull and writes no FAT sector.
DiskFullReported ==
    (/\ disk.initialised
     /\ last.op = "append"
     /\ Regular(pre.files[last.arg])
     /\ WellFormed(pre.dev, pre.files[last.arg])
     /\ pre.files[last.arg].size % GetBytesPerCluster(disk.bios_parameter_block) # 0
     /\ Len(last.data) > GetBytesPerCluster(disk.bios_parameter_block)
     /\ FatFull(pre.dev))
        => /\ last.err = "DiskFull"
           /\ \A j \in 1..Len(last.log) :
                  ~(last.log[j][1] = "w" /\ last.log[j][2] \in FatBlocks)

\* C10: on a Disk constructed without a writer, append_to_file of a
\* non-empty buffer fails before any block is read or written and leaves the
\* device unchanged.
ReadOnlyFailsBeforeIo ==
    (/\ disk.initialised
     /\ disk.writer = "None"
     /\ last.op = "append"
     /\ Regular(pre.files[last.arg])
     /\ Len(last.data) > 0)
        => (last.err # "none" /\ last.log = << >> /\ dev = pre.dev)

\* no block write is in the log of a call
NoWrites(log) == \A j \in 1..Len(log) : log[j][1] # "w"

\* C11: init, list_root_files and read_file_in_chunks issue no block write:
\* every such call leaves the content of the device as it was.
QueriesWriteNothing ==
    [][last'.op \in {"init", "list", "read"}
           => (dev' = dev /\ NoWrites(last'.log))]_vars

\* a listing and a read that followed it have read blocks, nothing was
\* written since the Disk was constructed
QueriesWriteNothingReached ==
    /\ last.op = "read"
    /\ last.err = "none"
    /\ nqry = 2
    /\ muts = << >>
    /\ Len(last.log) >= 4
    /\ dev = pre.dev

\* C12: init reads block 0 and then the first block of the partition it
\* selected, in this order, and nothing else; it writes no block; the Disk
\* is initialised exactly when both reads were made.
InitReadsMbrThenBpb ==
    /\ disk.initialised <=> (last.op = "init" /\ last.err = "none")
    /\ disk.initialised =>
           /\ last.log = << <<"r", 0>>, <<"r", disk.partition.start_lba>> >>
           /\ disk.bios_parameter_block
                  = BiosParameterBlock(ReadBlock(dev, disk.partition.start_lba))
    /\ last.op = "init" => (NoWrites(last.log) /\ dev = pre.dev)

\* init succeeded on a partition that is not the first entry of the table
\* and does not start at block 1
InitReadsMbrThenBpbReached ==
    /\ disk.initialised
    /\ disk.partition.start_lba = 3
    /\ disk.partitions[1] # disk.partition
    /\ disk.bios_parameter_block.bytes_per_sector = LOGICAL_BLOCK_SIZE

\* C13: a failure of the reader during init reaches the caller and leaves
\* the Disk not initialised; the public operations called afterwards fail
\* with DiskNotInitialised and read and write no block.
InitFailureKeepsUninitialised ==
    [][/\ (last'.op = "init" /\ Len(last'.log) < 2)
           => (last'.err = "IoFailure" /\ ~disk'.initialised)
       /\ (InitFailed /\ last'.op \in {"list", "read", "append", "create"})
           => (last'.err = "DiskNotInitialised" /\ last'.log = << >>)]_vars

ChainClusters(dv, c) == SelectSeq(ChainOf(dv, c, {}), LAMBDA x : x # -1)

\* the chain of dv from c on ends in an end-of-chain entry: it does not run
\* into a free, reserved or bad entry and does not come back to itself
ChainEnds(dv, c) == \A j \in 1..Len(ChainOf(dv, c, {})) : ChainOf(dv, c, {})[j] # -1

\* the blocks of cluster c
ClusterBlocks(c) ==
    LET first == (GetPartitionOffset(disk.partition) + ClusterOffset(disk, c))
                     \div LOGICAL_BLOCK_SIZE
    IN  first..(first + GetSectorsPerCluster(disk.bios_parameter_block) - 1)

\* the regular files the caller holds File objects of
Held == {i \in 1..Len(files) : Regular(files[i])}

\* every append_to_file made so far was given a regular file
RegularCalls ==
    \A k \in 1..Len(muts) :
        muts[k][1] = "append" => \E i \in Held : files[i].name = muts[k][2]

\* C15: in every state a sequence of create_file and append_to_file reaches,
\* the chain of every regular file of the root directory, and of the root
\* directory itself, runs over data clusters and ends in an end-of-chain
\* entry (no free or reserved entry on it, no cycle).
ChainIntegrity ==
    (disk.initialised /\ RegularCalls) =>
        /\ ChainEnds(dev, GetRootDirFirstCluster(disk.bios_parameter_block))
        /\ \A i \in Held : ChainEnds(dev, files[i].start_cluster)

\* C16: for every regular file a listing of the root directory returns, the
\* walk of the FAT from its start cluster reaches an end-of-chain value in at
\* most ceil(size / bytes_per_cluster) steps (in one step for an empty file,
\* whose start cluster is a cluster of its own).
ChainTerminationBound ==
    (disk.initialised /\ RegularCalls /\ ListingOf(dev).m.err = "none") =>
        \A j \in 1..Len(ListingOf(dev).files) :
            Regular(ListingOf(dev).files[j]) =>
                /\ ChainEnds(dev, ListingOf(dev).files[j].start_cluster)
                /\ Len(ChainOf(dev, ListingOf(dev).files[j].start_cluster, {}))
                       <= ClustersFor(ListingOf(dev).files[j].size)

\* the size of f is covered by the clusters of its chain on dv
SizeCovered(dv, f) ==
    f.size <= Len(ChainClusters(dv, f.start_cluster))
                  * GetBytesPerCluster(disk.bios_parameter_block)

\* C17: in every state a sequence of create_file and append_to_file reaches,
\* the size of every regular file, as the root directory lists it and as the
\* File the caller holds has it, is at most the number of clusters of the
\* file's chain times bytes_per_cluster.
SizeWithinChain ==
    (disk.initialised /\ RegularCalls) =>
        /\ \A i \in Held : SizeCovered(dev, files[i])
        /\ ListingOf(dev).m.err = "none" =>
               \A j \in 1..Len(ListingOf(dev).files) :
                   Regular(ListingOf(dev).files[j])
                       => SizeCovered(dev, ListingOf(dev).files[j])

\* the kind of the block a write goes to: a FAT sector, a sector of the root
\* directory, or a data sector
WriteKind(block) ==
    IF block \in FatBlocks THEN "fat"
    ELSE IF block \in ClusterBlocks(GetRootDirFirstCluster(disk.bios_parameter_block))
    THEN "dir"
    ELSE "data"

\* the kinds of the block writes of a log, in order
WriteKinds(log) ==
    LET ws == SelectSeq(log, LAMBDA e : e[1] = "w")
    IN  [j \in 1..Len(ws) |-> WriteKind(ws[j][2])]

\* the last call was a successful append_to_file that made the chain of a
\* regular, well-formed file longer
AppendedCluster ==
    /\ Appended
    /\ Len(ChainOf(dev, files[last.arg].start_cluster, {}))
           > Len(ChainOf(pre.dev, files[last.arg].start_cluster, {}))

\* C18: an append_to_file that allocates a cluster writes, in this order,
\* the data sectors of the tail, the FAT sector with the end-of-chain entry
\* of the new cluster, the FAT sector with the link of the predecessor, and
\* the sector of the directory entry, which is its last block write.
AppendWriteOrder ==
    AppendedCluster =>
        LET Ordered(kinds) ==
                /\ Len(kinds) >= 4
                /\ \A j \in 1..(Len(kinds) - 3) : kinds[j] = "data"
                /\ kinds[Len(kinds) - 2] = "fat"
                /\ kinds[Len(kinds) - 1] = "fat"
                /\ kinds[Len(kinds)] = "dir"
        IN  Ordered(WriteKinds(last.log))

\* the device dv after the block write w
PutBlock(dv, w) ==
    [b \in (DOMAIN dv) \cup {w[1]} |-> IF b = w[1] THEN w[2] ELSE dv[b]]

\* the devices after none, one, two, ... of the block writes ws made to dv
RECURSIVE DevicesAfter(_, _)
DevicesAfter(dv, ws) ==
    IF ws = << >> THEN << dv >>
    ELSE << dv >> \o DevicesAfter(PutBlock(dv, Head(ws)), Tail(ws))

\* the block writes of the last call, an append_to_file, with their data
LastAppendWrites ==
    AppendToFileImpl(disk, Machine(pre.dev), pre.files[last.arg], last.data).m.writes

\* the chains of the file that starts at cluster c on each of the devices
ChainsOn(devs, c) == [k \in 1..Len(devs) |-> ChainOf(devs[k], c, {})]

\* the elements of a sequence
Range(seq) == {seq[j] : j \in 1..Len(seq)}

\* C19: for every cluster an append_to_file allocates, a data sector of the
\* cluster is written before the FAT write that links the cluster to the
\* file's chain.
DataBeforeLink ==
    AppendedCluster =>
        LET Before(ws, chains) ==
                \A k \in 1..Len(ws) :
                    \A c \in Range(chains[k + 1]) \ Range(chains[k]) :
                        \E i \in 1..(k - 1) : ws[i][1] \in ClusterBlocks(c)
            On(ws, devs) == Before(ws, ChainsOn(devs, files[last.arg].start_cluster))
            Run(ws) == On(ws, DevicesAfter(pre.dev, ws))
        IN  Run(LastAppendWrites)

\* C20: after every prefix of the block writes of an append_to_file to a
\* regular, well-formed file, the file's chain ends in an end-of-chain
\* entry and is the chain before the append, or that chain followed by
\* clusters whose entry was an end-of-chain marker before the write that
\* put them on the chain.
CrashConsistentChain ==
    (/\ disk.initialised
     /\ last.op = "append"
     /\ RegularCalls
     /\ Regular(pre.files[last.arg])
     /\ WellFormed(pre.dev, pre.files[last.arg]))
        => LET Consistent(devs, chains) ==
                   \A k \in 2..Len(devs) :
                       /\ \A j \in 1..Len(chains[k]) : chains[k][j] # -1
                       /\ Len(chains[k]) >= Len(chains[1])
                       /\ SubSeq(chains[k], 1, Len(chains[1])) = chains[1]
                       /\ \A c \in Range(chains[k]) \ Range(chains[k - 1]) :
                              FatEntry(devs[k - 1], c) >= EOC
               On(devs) ==
                   Consistent(devs, ChainsOn(devs, pre.files[last.arg].start_cluster))
           IN  On(DevicesAfter(pre.dev, LastAppendWrites))

\* the last call was an append_to_file to a regular, well-formed file that
\* ended in an exception, on a Disk whose caller holds the current listing
AppendFailed ==
    /\ disk.initialised
    /\ last.op = "append"
    /\ last.err # "none"
    /\ RegularCalls
    /\ Regular(pre.files[last.arg])
    /\ WellFormed(pre.dev, pre.files[last.arg])
    /\ ListingOf(pre.dev).m.err = "none"
    /\ Len(ListingOf(pre.dev).files) >= last.arg
    /\ ListingOf(pre.dev).files[last.arg].name = pre.files[last.arg].name

\* C21: after an append_to_file that raised, the directory entry of the file
\* has the size it had before the call, and the file taken from a new
\* listing reads as it read before the call.
FailedAppendKeepsContent ==
    AppendFailed =>
        LET Same(before, after) ==
                /\ after.m.err = "none"
                /\ Len(after.files) >= last.arg
                /\ after.files[last.arg].size = before.files[last.arg].size
                /\ ReadBack(dev, after.files[last.arg]).m.err = "none"
                /\ Concat(ReadBack(dev, after.files[last.arg]).chunks)
                       = Concat(ReadBack(pre.dev, before.files[last.arg]).chunks)
        IN  Same(ListingOf(pre.dev), ListingOf(dev))

\* ------------------------------------------------- block counts of an append
\* the lengths of the buffers of a caller that appends once, for a cluster of
\* bpc bytes: nothing, the nine bytes of "Test Data", what fills the cluster
\* of an 11-byte file and one byte more, more than a sector, more than a
\* cluster
CountedLens(bpc) == {0, 9, bpc - 11, bpc - 10, LOGICAL_BLOCK_SIZE + 88, bpc + 2}

\* a caller that calls init, lists the root directory and appends once
NextAppend ==
    \/ DiskInit
    \/ muts = << >> /\ ListRootFiles
    \/ muts = << >> /\ disk.initialised
           /\ \E i \in Targets :
                  \E len \in CountedLens(GetBytesPerCluster(disk.bios_parameter_block)) :
                      AppendToFile(i, AppendData(Len(muts), len))
    \/ muts # << >> /\ \E i \in Targets : ReadFileInChunks(i)

SpecAppend == Init /\ [][NextAppend]_vars

\* the block reads and the block writes in the log of a call
ReadCount(log) == Len(SelectSeq(log, LAMBDA e : e[1] = "r"))

WriteCount(log) == Len(SelectSeq(log, LAMBDA e : e[1] = "w"))

\* the size of pre.files[last.arg] and the room left in its last cluster
AppendedSize == pre.files[last.arg].size

FreeBytesInCluster ==
    GetBytesPerCluster(disk.bios_parameter_block)
        - (AppendedSize % GetBytesPerCluster(disk.bios_parameter_block))

\* the last call appended to a file of the first listing of the volume
AppendedToListed == Appended /\ pre.files = ListingOf(pre.dev).files

\* C22: an append_to_file of a non-empty buffer that fits into the file's
\* last cluster (at most bytes_per_cluster - size % bytes_per_cluster bytes),
\* for any number of sectors per cluster, issues exactly one block write.
AppendInClusterWritesOnce ==
    (/\ AppendedToListed
     /\ Len(last.data) > 0
     /\ Len(last.data) <= FreeBytesInCluster)
        => WriteCount(last.log) = 1

\* C23: an append_to_file whose buffer crosses exactly one cluster boundary
\* (more than the room of the last cluster, at most a cluster more) issues
\* exactly four block writes: a data sector, the FAT sector twice (the
\* end-of-chain entry, the link of the predecessor) and the sector of the
\* directory entry.
AppendAcrossClusterWritesFour ==
    (/\ AppendedToListed
     /\ Len(last.data) > FreeBytesInCluster
     /\ Len(last.data) <= FreeBytesInCluster
                              + GetBytesPerCluster(disk.bios_parameter_block))
        => WriteKinds(last.log) = << "data", "fat", "fat", "dir" >>

\* the room left in the last sector of pre.files[last.arg]
FreeBytesInSector == LOGICAL_BLOCK_SIZE - (AppendedSize % LOGICAL_BLOCK_SIZE)

\* C24: an append_to_file of a non-empty buffer that fits into the room left
\* in the file's last sector issues exactly three block reads and exactly
\* two block writes, the data sector and the sector of the directory entry.
AppendInSectorReadsThreeWritesTwo ==
    (/\ AppendedToListed
     /\ Len(last.data) > 0
     /\ Len(last.data) <= FreeBytesInSector)
        => /\ ReadCount(last.log) = 3
           /\ WriteKinds(last.log) = << "data", "dir" >>

\* ------------------------------------------------ directory entries on their own
\* The File objects a caller builds to encode: names (empty, one character,
\* "File 1", eleven characters, a leading NUL, a leading tab, a trailing
\* space, twelve characters, a character outside ASCII), attribute bytes
\* with the attributes and the is_lfn they decode to, start clusters above
\* and below 2^16, sizes up to 2^31 - 1, and stamps (the first and the last
\* the encoding has, odd seconds, a month of 16).
CodecFiles ==
    LET names == { << >>, <<65>>, <<70, 105, 108, 101, 32, 49>>,
                   <<76, 79, 71, 45, 49, 32, 32, 32, 84, 88, 84>>,
                   <<0, 65>>, <<9, 65>>, <<65, 32>>,
                   <<76, 79, 71, 45, 49, 32, 32, 32, 84, 88, 84, 50>>, <<233>> }
        first == << <<1980, 0, 0>>, <<0, 0, 0>> >>
        test == << <<2025, 7, 28>>, <<10, 11, 2>> >>
        final == << <<2107, 15, 31>>, <<31, 63, 62>> >>
        odd == << <<2025, 7, 28>>, <<10, 11, 3>> >>
    IN  { [name |-> n, attr |-> a, attributes |-> Attributes(a),
           start_cluster |-> c, size |-> z, created |-> cr, accessed |-> ac,
           written |-> wr, is_lfn |-> (a = ATTR_LFN), byte_offset |-> 1000] :
              n \in names, a \in {1, ATTR_LFN, ATTR_ARCHIVE, 255},
              c \in {2, 5 * 65536 + 3}, z \in {0, 512, 2147483647},
              cr \in {test, final, odd}, ac \in {<<2025, 7, 28>>, <<2025, 16, 1>>},
              wr \in {test, first} }

\* The directories parsed: one File of CodecFiles, or four slots each
\* holding one of two files.
CodecDirs ==
    { << f >> : f \in CodecFiles }
        \cup [1..4 -> {CallerFile, NewFile(<<110, 101, 119>>, 8, 96)}]

InitCodec ==
    \E fs \in CodecDirs :
        /\ files = fs
        /\ dev = << >>
        /\ disk = [writer |-> "None", partitions |-> << >>, partition |-> "None",
                   bios_parameter_block |-> "None", initialised |-> FALSE]
        /\ last = NoCall
        /\ pre = [dev |-> dev, files |-> files]
        /\ muts = << >>
        /\ nqry = 0

\* the directory data made of the entries fs[i].to_bytes(), where the first
\* byte of a slot marked "deleted" is 0xE5 and of a slot marked "end" 0x00
RECURSIVE EntriesBytes(_, _)
EntriesBytes(fs, marks) ==
    IF fs = << >> THEN << >>
    ELSE (IF Head(marks) = "deleted" THEN Overlay(ToBytes(Head(fs)), 0, <<229>>)
          ELSE IF Head(marks) = "end" THEN Overlay(ToBytes(Head(fs)), 0, <<0>>)
          ELSE ToBytes(Head(fs)))
             \o EntriesBytes(Tail(fs), Tail(marks))

\* File.to_bytes for every File, and the slots marked as a directory on disk
\* may have them marked
WriteEntries(marks) ==
    /\ last.op = "none"
    /\ last' = [NoCall EXCEPT !.op = "to_bytes", !.data = EntriesBytes(files, marks)]
    /\ UNCHANGED << dev, disk, files, pre, muts, nqry >>

\* File.parse_directory_entries(data, offset) on the data written
ParseEntries(offset) ==
    /\ last.op = "to_bytes"
    /\ last' = [last EXCEPT !.op = "parse", !.arg = offset,
                            !.chunks = ParseDirectoryEntries(last.data, offset)]
    /\ UNCHANGED << dev, disk, files, pre, muts, nqry >>

NextCodec ==
    \/ \E marks \in [1..Len(files) -> {"file", "deleted", "end"}] :
           (Len(files) = 1 => marks[1] = "file") /\ WriteEntries(marks)
    \/ \E offset \in {0, 1000} : ParseEntries(offset)

SpecCodec == InitCodec /\ [][NextCodec]_vars

\* the fields of f fit a directory entry: an ASCII name of at most 11
\* characters without a leading or trailing space, dates and times the
\* packed fields can hold, even seconds
FitsEncoding(f) ==
    LET Date(d) == d[1] \in 1980..2107 /\ d[2] \in 0..15 /\ d[3] \in 0..31
        Time(t) == t[1] \in 0..31 /\ t[2] \in 0..63 /\ t[3] \in 0..62 /\ t[3] % 2 = 0
    IN  /\ Len(f.name) <= 11
        /\ \A j \in 1..Len(f.name) : f.name[j] <= 127
        /\ f.name # << >> => (f.name[1] # 32 /\ f.name[Len(f.name)] # 32)
        /\ Date(f.created[1]) /\ Time(f.created[2])
        /\ Date(f.accessed)
        /\ Date(f.written[1]) /\ Time(f.written[2])
        /\ f.attr \in 0..255

\* the last call parsed the entry of the one File files[1]
ParsedOne == last.op = "parse" /\ Len(files) = 1 /\ last.data = ToBytes(files[1])

ParseStopsAtEndSkipsDeleted ==
    last.op = "parse" =>
        LET First(i) == last.data[i * DIR_ENTRY_SIZE + 1]
            kept == {i \in 0..((Len(last.data) \div DIR_ENTRY_SIZE) - 1) :
                        /\ \A k \in 0..i : First(k) # 0
                        /\ First(i) # 229}
            Slot(j) == CHOOSE i \in kept : Cardinality({k \in kept : k < i}) = j - 1
        IN  /\ Len(last.chunks) = Cardinality(kept)
            /\ \A j \in 1..Len(last.chunks) :
                   last.chunks[j]
                       = ParseEntry(Slice(last.data, Slot(j) * DIR_ENTRY_SIZE,
                                          (Slot(j) + 1) * DIR_ENTRY_SIZE),
                                    last.arg + Slot(j) * DIR_ENTRY_SIZE)

\* a directory of a deleted entry, two entries in use, a slot that begins
\* with 0x00 and an entry after it was parsed at offset 1000
ParseStopsAtEndSkipsDeletedReached ==
    /\ last.op = "parse"
    /\ last.arg = 1000
    /\ Len(files) = 4
    /\ last.data[1] = 229
    /\ last.data[DIR_ENTRY_SIZE + 1] \notin {0, 229}
    /\ last.data[2 * DIR_ENTRY_SIZE + 1] = 0
    /\ last.data[3 * DIR_ENTRY_SIZE + 1] \notin {0, 229}
    /\ Len(last.chunks) = 1
    /\ last.chunks[1].byte_offset = 1000 + DIR_ENTRY_SIZE

\* C26: init does not complete on a BPB whose bytes_per_sector or
\* sectors_per_cluster is 0: no Disk is initialised with such a geometry
\* (the error reported is MalformedOnDisk).
DegenerateGeometryRejected ==
    /\ disk.initialised =>
           /\ disk.bios_parameter_block.bytes_per_sector # 0
           /\ disk.bios_parameter_block.sectors_per_cluster # 0
    /\ (/\ last.op = "init"
        /\ disk.partitions # << >>
        /\ ReadBlock(dev, disk.partition.start_lba) # Unreadable
        /\ disk.partition.start_lba < DeviceBlocks
        /\ \/ BiosParameterBlock(ReadBlock(dev, disk.partition.start_lba))
                  .bytes_per_sector = 0
           \/ BiosParameterBlock(ReadBlock(dev, disk.partition.start_lba))
                  .sectors_per_cluster = 0)
           => last.err = "MalformedOnDisk"

\* C27: the FAT-entry writes of an append_to_file (end-of-chain markers and
\* links) leave the high 4 bits of every 32-bit entry of the FAT sectors as
\* they were before the call.
FatHighBitsPreserved ==
    (disk.initialised /\ last.op = "append" /\ Regular(pre.files[last.arg])
         /\ WellFormed(pre.dev, pre.files[last.arg]))
        => \A b \in FatBlocks :
               \A i \in 1..(LOGICAL_BLOCK_SIZE \div 4) :
                   ReadBlock(dev, b)[4 * i] \div 16
                       = ReadBlock(pre.dev, b)[4 * i] \div 16

\* C29: the free-entry scan an append_to_file makes from the file's last
\* cluster c, when it finds an entry, returns (buffer, sector, index) where
\* buffer is the content of FAT sector `sector` and (sector * 512 + index) / 4
\* is the first cluster from c on whose FAT entry is free.
FreeEntryScanResult ==
    (/\ disk.initialised
     /\ last.op = "append"
     /\ Regular(pre.files[last.arg])
     /\ WellFormed(pre.dev, pre.files[last.arg])
     /\ Len(last.data) > FreeBytesInCluster)
        => LET Found(c, r) ==
                   (r.m.err = "none" /\ r.idx # -1) =>
                       /\ r.data = ReadBlock(pre.dev,
                              ((GetPartitionOffset(disk.partition)
                                  + GetFatTableByteOffset(disk.bios_parameter_block))
                                    \div LOGICAL_BLOCK_SIZE) + r.sector_num)
                       /\ LE32Masked(r.data, r.idx) = 0
                       /\ (r.sector_num * LOGICAL_BLOCK_SIZE + r.idx) \div 4 >= c
                       /\ FatEntry(pre.dev,
                              (r.sector_num * LOGICAL_BLOCK_SIZE + r.idx) \div 4) = 0
                       /\ \A k \in c..(((r.sector_num * LOGICAL_BLOCK_SIZE + r.idx)
                                           \div 4) - 1) : FatEntry(pre.dev, k) # 0
               Scan(c) == Found(c, FindNextEmptyFatEntry(disk, Machine(pre.dev), c))
           IN  Scan(GetFilesLastCluster(disk, Machine(pre.dev),
                                        pre.files[last.arg]).val)

\* C30: after an append_to_file that allocates one cluster, the FAT entry of
\* the cluster that was the file's last holds the number n of a cluster whose
\* entry was 0 before the call, and the entry of n is the end-of-chain marker
\* 0x0FFFFFF8.
AllocationLinksFreeCluster ==
    (/\ Appended
     /\ Len(last.data) > FreeBytesInCluster
     /\ Len(last.data) <= FreeBytesInCluster
                              + GetBytesPerCluster(disk.bios_parameter_block))
        => LET Linked(n) ==
                   /\ n >= 2 /\ n < FatEntries
                   /\ FatEntry(pre.dev, n) = 0
                   /\ FatEntry(dev, n) = EOC
               After(c) == Linked(FatEntry(dev, c))
           IN  After(GetFilesLastCluster(disk, Machine(pre.dev),
                                         pre.files[last.arg]).val)

\* C31: the allocation of an append_to_file that allocates one cluster
\* changes exactly two entries of the primary FAT, the entry of the cluster
\* that was the file's last and an entry that was free, and no entry of the
\* second FAT copy.
AllocationChangesTwoEntries ==
    (/\ Appended
     /\ Len(last.data) > FreeBytesInCluster
     /\ Len(last.data) <= FreeBytesInCluster
                              + GetBytesPerCluster(disk.bios_parameter_block))
        => LET first == (GetPartitionOffset(disk.partition)
                            + GetFatTableByteOffset(disk.bios_parameter_block))
                        \div LOGICAL_BLOCK_SIZE
               Raw(dv, c) ==
                   Slice(ReadBlock(dv, first + ((4 * c) \div LOGICAL_BLOCK_SIZE)),
                         (4 * c) % LOGICAL_BLOCK_SIZE,
                         ((4 * c) % LOGICAL_BLOCK_SIZE) + 4)
               changed == {c \in 0..(FatEntries - 1) : Raw(dev, c) # Raw(pre.dev, c)}
               Two(c) ==
                   /\ c \in changed
                   /\ Cardinality(changed) = 2
                   /\ \A n \in changed \ {c} : FatEntry(pre.dev, n) = 0
                   /\ \A s \in 0..(GetFatSizeInSectors(disk.bios_parameter_block) - 1) :
                          ReadBlock(dev,
                              first + GetFatSizeInSectors(disk.bios_parameter_block) + s)
                              = ReadBlock(pre.dev,
                                    first + GetFatSizeInSectors(disk.bios_parameter_block) + s)
           IN  Two(GetFilesLastCluster(disk, Machine(pre.dev),
                                       pre.files[last.arg]).val)

\* ------------------------------------------------------ the free-entry scan
\* The FATs the scan is run on: one or two sectors, every entry in use but
\* for any of the clusters 8, 100, 140 and 250.
ScanImages ==
    { [spc |-> 1, fat |-> f, full |-> TRUE, high |-> 0, holes |-> h] :
          f \in {1, 2}, h \in SUBSET {8, 100, 140, 250} }

InitScan ==
    \E img \in ScanImages :
        /\ dev = ImageDevice(img)
        /\ disk = [writer |-> "write_block", partitions |-> << >>,
                   partition |-> "None", bios_parameter_block |-> "None",
                   initialised |-> FALSE]
        /\ files = << >>
        /\ last = NoCall
        /\ pre = [dev |-> dev, files |-> files]
        /\ muts = << >>
        /\ nqry = 0

\* Disk._find_next_empty_fat_entry(cluster), called on its own: the result
\* is kept as chunks = <<buffer>> and data = <<sector_num, idx>>
FindNextEmptyFatEntryCall(cluster) ==
    LET Found(r) ==
            /\ last' = [NoCall EXCEPT !.op = "scan", !.arg = cluster,
                                      !.err = r.m.err, !.log = r.m.log,
                                      !.chunks = << r.data >>,
                                      !.data = << r.sector_num, r.idx >>]
            /\ dev' = r.m.dev
    IN  /\ disk.initialised
        /\ cluster < FatEntries
        /\ Found(FindNextEmptyFatEntry(disk, Machine(dev), cluster))
        /\ UNCHANGED << disk, files, pre, muts, nqry >>

NextScan ==
    \/ DiskInit
    \/ \E cluster \in {2, 7, 9, 101, 136, 141, 255} :
           FindNextEmptyFatEntryCall(cluster)

SpecScan == InitScan /\ [][NextScan]_vars

\* C32: the free-entry scan returns after reading at most as many FAT
\* sectors as the FAT has, and it returns without a free slot only if no
\* entry of the FAT is free.
ScanFindsAnyFreeEntry ==
    last.op = "scan" =>
        /\ last.err = "none"
        /\ ReadCount(last.log) <= GetFatSizeInSectors(disk.bios_parameter_block)
        /\ last.data[2] = -1 => FatFull(dev)


\* the bytes of the clusters of `chain` on the device dv, cluster after
\* cluster, each with its sectors_per_cluster blocks in order
ChainData(dv, chain) ==
    LET RECURSIVE Blocks(_, _)
        Blocks(c, b) ==
            IF b \notin ClusterBlocks(c) THEN << >>
            ELSE ReadBlock(dv, b) \o Blocks(c, b + 1)
        RECURSIVE Clusters(_)
        Clusters(k) ==
            IF k > Len(chain) THEN << >>
            ELSE Blocks(chain[k],
                        CHOOSE b \in ClusterBlocks(chain[k]) :
                            \A o \in ClusterBlocks(chain[k]) : b <= o)
                     \o Clusters(k + 1)
    IN  Clusters(1)

\* C33: append_to_file(f, b) to a regular, well-formed file of any size (0,
\* not a multiple of bytes_per_cluster, a multiple of it) puts the bytes of
\* b at the offsets size, size + 1, ... of the data of the clusters of f's
\* chain, taken in chain order, and leaves the bytes of the file below the
\* size f had before as they were.
AppendWritesAtEndOfFile ==
    Appended =>
        LET size == AppendedSize
            start == pre.files[last.arg].start_cluster
            Placed(old, new) ==
                /\ Len(new) >= size + Len(last.data)
                /\ Slice(new, 0, size) = Slice(old, 0, size)
                /\ Slice(new, size, size + Len(last.data)) = last.data
        IN  Placed(ChainData(pre.dev, ChainClusters(pre.dev, start)),
                   ChainData(dev, ChainClusters(dev, start)))

\* C34: the chunks read_file_in_chunks(f) yields for a regular file, put
\* together, are the first f.size bytes of the data of the clusters of f's
\* chain in chain order; no chunk is longer than a block, and the FAT entry
\* of every cluster of the chain is read exactly once.
ReadYieldsChainData ==
    (/\ disk.initialised
     /\ last.op = "read"
     /\ RegularCalls
     /\ Regular(files[last.arg]))
        => LET f == files[last.arg]
               Yields(chain) ==
                   /\ last.err = "none"
                   /\ Concat(last.chunks) = Slice(ChainData(dev, chain), 0, f.size)
                   /\ \A k \in 1..Len(last.chunks) :
                          Len(last.chunks[k]) <= LOGICAL_BLOCK_SIZE
                   /\ Len(SelectSeq(last.log, LAMBDA e : e[2] \in FatBlocks))
                          = Len(chain)
           IN  Yields(ChainClusters(dev, f.start_cluster))


\* C35: the byte_offset of every File of a listing is the offset of the
\* 32-byte slot of the root directory the File was parsed from (deleted
\* slots before it counted), the byte_offsets of a listing differ from each
\* other, and an append_to_file of a non-empty buffer to a listed file
\* rewrites the slot of that file, which then holds the new size, and no
\* other slot.
ByteOffsetNamesOwnSlot ==
    (AppendedToListed /\ Len(last.data) > 0) =>
        LET listed == pre.files
            Slot(dv, f) ==
                Slice(ChainData(dv, << RootDirectoryFile(disk).start_cluster >>),
                      f.byte_offset - RootDirectoryByteOffset(disk),
                      f.byte_offset - RootDirectoryByteOffset(disk)
                          + DIR_ENTRY_SIZE)
        IN  /\ \A j \in 1..Len(listed) :
                   /\ (listed[j].byte_offset - RootDirectoryByteOffset(disk))
                          % DIR_ENTRY_SIZE = 0
                   /\ Len(Slot(pre.dev, listed[j])) = DIR_ENTRY_SIZE
                   /\ ParseEntry(Slot(pre.dev, listed[j]), listed[j].byte_offset)
                          = listed[j]
            /\ \A j, k \in 1..Len(listed) :
                   j # k => listed[j].byte_offset # listed[k].byte_offset
            /\ \A j \in 1..Len(listed) :
                   j # last.arg => Slot(dev, listed[j]) = Slot(pre.dev, listed[j])
            /\ LE32(Slot(dev, listed[last.arg]), 28) = files[last.arg].size


\* C36: in every state a sequence of create_file and append_to_file reaches,
\* no cluster is on the chains of two regular files of the root directory,
\* and no cluster on the chain of such a file has the FAT entry 0.
NoCrossLinking ==
    (disk.initialised /\ RegularCalls /\ ListingOf(dev).m.err = "none") =>
        LET Disjoint(fs) ==
                LET On(j) == Range(ChainClusters(dev, fs[j].start_cluster))
                    reg == {j \in 1..Len(fs) : Regular(fs[j])}
                IN  /\ \A j, k \in reg : j # k => On(j) \cap On(k) = {}
                    /\ \A j \in reg : \A c \in On(j) : FatEntry(dev, c) # 0
        IN  Disjoint(ListingOf(dev).files)


\* C37: an append_to_file to a regular, well-formed file of a listing leaves
\* every other regular file of the listing as it was: what reading it
\* yields, its chain and the 32 bytes of its directory entry.
AppendKeepsOtherFiles ==
    AppendedToListed =>
        \A j \in 1..Len(pre.files) :
            (j # last.arg /\ Regular(pre.files[j])) =>
                LET g == pre.files[j]
                    Entry(dv) ==
                        Slice(ChainData(dv, << RootDirectoryFile(disk).start_cluster >>),
                              g.byte_offset - RootDirectoryByteOffset(disk),
                              g.byte_offset - RootDirectoryByteOffset(disk)
                                  + DIR_ENTRY_SIZE)
                    SameRead(before, after) ==
                        /\ after.m.err = before.m.err
                        /\ after.chunks = before.chunks
                IN  /\ SameRead(ReadBack(pre.dev, g), ReadBack(dev, g))
                    /\ ChainOf(dev, g.start_cluster, {})
                           = ChainOf(pre.dev, g.start_cluster, {})
                    /\ Entry(dev) = Entry(pre.dev)


\* C38: every block an append_to_file to a regular, well-formed file reads
\* or writes outside the FAT is a sector of a cluster (number 2 or more) of
\* the chain the file has when the append returns: no sector of another
\* cluster and none of the reserved area.
AppendStaysInOwnClusters ==
    Appended =>
        LET Own(chain) ==
                \A k \in 1..Len(last.log) :
                    last.log[k][2] \notin FatBlocks =>
                        \E j \in 1..Len(chain) :
                            /\ chain[j] >= 2
                            /\ last.log[k][2] \in ClusterBlocks(chain[j])
        IN  Own(ChainClusters(dev, pre.files[last.arg].start_cluster))


\* ------------------------------------------------ a read pulled chunk by chunk
\* One next() on the generator of Disk._read_file_in_chunks, which stands
\* after the yield of sector g.sec of cluster g.cluster (before its first
\* statement: g.sectors_to_read = 0, g.next_cluster = file.start_cluster,
\* g.i = 0).  The locals cluster, i, offset, sectors_to_read and
\* next_cluster are the generator's own; file.size is read from the File
\* object whenever a statement uses it.  The result is the chunk yielded, or
\* done when the generator returned or raised.
GeneratorNext(d, m, file, g) ==
    LET Sector(mm, h) ==
            LET Yield(rd) ==
                    [m |-> rd.m, g |-> h, done |-> rd.m.err # "none",
                     chunks |->
                         IF rd.m.err # "none" THEN << >>
                         ELSE IF h.sec = h.sectors_to_read - 1
                                  /\ h.next_cluster >= EOC
                         THEN << Slice(rd.data, 0,
                                       IF file.size % LOGICAL_BLOCK_SIZE # 0
                                       THEN file.size % LOGICAL_BLOCK_SIZE
                                       ELSE LOGICAL_BLOCK_SIZE) >>
                         ELSE << rd.data >>]
            IN  Yield(ReadDisk(mm, GetPartitionOffset(d.partition)
                                       + ClusterOffset(d, h.cluster)
                                       + (h.sec * LOGICAL_BLOCK_SIZE)))
        RECURSIVE While(_, _, _, _)
        While(mm, cluster, i, seen) ==
            IF mm.err # "none" \/ ~(cluster < EOC)
            THEN [m |-> mm, g |-> g, done |-> TRUE, chunks |-> << >>]
            ELSE IF cluster \in seen
            THEN [m |-> Fail(mm, "NoReturn"), g |-> g, done |-> TRUE,
                  chunks |-> << >>]
            ELSE
            LET bytes_per_cluster == GetBytesPerCluster(d.bios_parameter_block)
                sectors_to_read ==
                    IF file.size < (i * bytes_per_cluster)
                    THEN ((bytes_per_cluster - ((i * bytes_per_cluster) - file.size))
                              \div 512)
                         + (IF file.size % LOGICAL_BLOCK_SIZE # 0 THEN 1 ELSE 0)
                    ELSE GetSectorsPerCluster(d.bios_parameter_block)
                For(nx) ==
                    IF nx.m.err # "none"
                    THEN [m |-> nx.m, g |-> g, done |-> TRUE, chunks |-> << >>]
                    ELSE IF sectors_to_read > 0
                    THEN Sector(nx.m, [cluster |-> cluster, i |-> i, sec |-> 0,
                                       sectors_to_read |-> sectors_to_read,
                                       next_cluster |-> nx.val])
                    ELSE While(nx.m, nx.val, i + 1, seen \cup {cluster})
            IN  For(GetNextCluster(d, mm, cluster))
    IN  IF g.sec + 1 < g.sectors_to_read
        THEN Sector(m, [g EXCEPT !.sec = @ + 1])
        ELSE While(m, g.next_cluster, g.i + 1, {})

\* The caller calls next() on the iterator read_file_in_chunks(files[i])
\* returned: on a new iterator when no read is in progress, else on the one
\* in progress.  last holds the read: the chunks and the block I/O so far
\* and, as data, the generator's locals, whether it has ended, and the
\* append_to_file calls made since its first next() with the exception of
\* the last of them.
Pull(i) ==
    /\ disk.initialised
    /\ i \in Held
    /\ \/ last.op # "pull"
       \/ last.op = "pull" /\ last.arg = i /\ ~last.data.done
    /\ LET g == IF last.op = "pull" THEN last.data.g
                ELSE [cluster |-> files[i].start_cluster, i |-> 0, sec |-> 0,
                      sectors_to_read |-> 0,
                      next_cluster |-> files[i].start_cluster]
           sofar == IF last.op = "pull" THEN last
                    ELSE [NoCall EXCEPT !.data = [appends |-> 0, append_err |-> "none"]]
           Next1(r) ==
               /\ last' = [op |-> "pull", arg |-> i, err |-> r.m.err,
                           log |-> sofar.log \o r.m.log,
                           chunks |-> sofar.chunks \o r.chunks,
                           data |-> [g |-> r.g, done |-> r.done,
                                     appends |-> sofar.data.appends,
                                     append_err |-> sofar.data.append_err]]
               /\ dev' = r.m.dev
       IN  Next1(GeneratorNext(disk, Machine(dev), files[i], g))
    /\ UNCHANGED << disk, files, pre, muts, nqry >>

\* Disk.append_to_file on the File object of the read in progress, between
\* two next() of its iterator
AppendBetweenPulls(data) ==
    /\ last.op = "pull"
    /\ ~last.data.done
    /\ last.data.appends = 0
    /\ Mutation("append", files[last.arg].name)
    /\ LET Appended1(r) ==
               /\ dev' = r.m.dev
               /\ files' = [files EXCEPT ![last.arg] = r.file]
               /\ last' = [last EXCEPT !.data.appends = 1,
                                       !.data.append_err = r.m.err]
       IN  Appended1(AppendToFileImpl(disk, Machine(dev), files[last.arg], data))
    /\ UNCHANGED disk

\* a caller that calls init, lists the root directory, may append once, and
\* then reads one file chunk by chunk, appending once to it on the way
NextLazy ==
    \/ DiskInit
    \/ muts = << >> /\ last.op # "pull" /\ ListRootFiles
    \/ muts = << >> /\ last.op # "pull" /\ disk.initialised
           /\ \E i \in Held :
                  AppendToFile(i, AppendData(0, LOGICAL_BLOCK_SIZE + 88))
    \/ \E i \in 1..Len(files) : Pull(i)
    \/ disk.initialised
           /\ \E len \in CountedLens(GetBytesPerCluster(disk.bios_parameter_block)) :
                  AppendBetweenPulls(AppendData(Len(muts), len))

SpecLazy == Init /\ [][NextLazy]_vars

\* C39: when one append_to_file(f, b) runs between two next() of an iterator
\* of read_file_in_chunks(f) on the same File object, for a regular f whose
\* chain has the clusters its size needs and whose size is not a multiple of
\* bytes_per_cluster, the iterator ends without an exception and the chunks
\* it yielded sum to the size of f before the append or to its size after.
LazyReadTotal ==
    (/\ last.op = "pull"
     /\ last.data.done
     /\ last.data.appends = 1
     /\ last.data.append_err = "none"
     /\ RegularCalls
     /\ WellFormed(pre.dev, pre.files[last.arg])
     /\ pre.files[last.arg].size % GetBytesPerCluster(disk.bios_parameter_block) # 0)
        => /\ last.err = "none"
           /\ SumLen(last.chunks) \in {pre.files[last.arg].size,
                                       files[last.arg].size}

====
